---- MODULE Spec2Model ----
(***************************************************************************)
(* Model of the barcode-scan agent: raspi-barcode-scanner-display.py (the  *)
(* display variant) and raspi-barcode-scanner.py (the console variant).    *)
(*                                                                         *)
(* Workers: the main input loop (Input Framer), processing_thread (Scan    *)
(* Processor with the Offline Buffer) and, in the display variant,         *)
(* display_thread (Display Scheduler).  They share scan_queue,             *)
(* display_queue and stop_event; the framebuffer is written by             *)
(* display_thread and closed by cleanup.                                   *)
(*                                                                         *)
(* Time.  One tick is half a second.  The code only ever compares          *)
(* time.time() with a stored timestamp, so each timestamp is kept as its   *)
(* age (time.time() - timestamp) or, for a deadline, as the time left      *)
(* (deadline - time.time()), saturated one step past the largest constant  *)
(* it is compared with.  Tick lets half a second pass.                     *)
(***************************************************************************)
EXTENDS Integers, Sequences, FiniteSets, TLC

\* ------------------------------------------------------------- constants

\* INPUT_TIMEOUT = 0.5 s, in ticks
INPUT_TIMEOUT == 1
\* CLOCK_UPDATE_INTERVAL = 1 s, in ticks
CLOCK_UPDATE_INTERVAL == 2
\* SCAN_DISPLAY_TIME of the display variant = 6 s, in ticks
SCAN_DISPLAY_TIME == 12
DEVICE_ID == "raspberrypi01"

\* ---------------------------------------------------------------- bounds

\* The number of characters the scanner sends over a whole run.
MaxChars == 4

\* ------------------------------------------------------------ input data

NL == "\n"
Whitespace == {" ", NL}
\* What the scanner can send: a code character, a blank, the terminator.
Chars == {"a", " ", NL}

Variants == {"display", "console"}

\* str.strip(): drop the leading and the trailing whitespace.
RECURSIVE LStrip(_)
LStrip(s) ==
    IF s # <<>> /\ Head(s) \in Whitespace THEN LStrip(Tail(s)) ELSE s

RECURSIVE RStrip(_)
RStrip(s) ==
    IF s # <<>> /\ s[Len(s)] \in Whitespace
    THEN RStrip(SubSeq(s, 1, Len(s) - 1))
    ELSE s

StripLeftOnly(s) == LStrip(s)

Strip(s) == RStrip(LStrip(s))

\* An age one tick older, saturated at cap.
Older(age, cap) == IF age < cap THEN age + 1 ELSE cap

VARIABLES
    variant,        \* which of the two scripts runs
    stdin,          \* characters the scanner has sent and main has not read
    typed,          \* how many characters the scanner has sent so far
    arrival_idle,   \* age of the last character's arrival
    current_input,  \* main: the accumulated buffer
    input_idle,     \* main: age of last_input_time
    scan_queue,     \* queue.Queue of ScanTokens
    line,           \* history: the line being read (see ReadChar)
    done_line,      \* history: the last line a terminator completed
    cache,          \* CACHE_DIR: the scan_*.json files, one record each
    wall,           \* the latest datetime.now() that cache_scan has read
    retried,        \* history: cache files refused, and sent again after it
    pc,             \* processing_thread: where it stands
    pending,        \* send_cached_scans: cache_files not yet looped over
    barcode,        \* processing_thread: the token taken from scan_queue
    response,       \* process_barcode: what requests.post came back with
    display_queue,  \* queue.Queue of display requests (display variant)
    console,        \* the terminal screen (console variant)
    iter,           \* history: what this processing_thread iteration did
    is_showing_clock,  \* display_thread
    clock_age,         \* display_thread: age of last_clock_update
    display_left,      \* display_thread: current_display_end_time - now
    screen,            \* what the framebuffer shows
    watch,             \* history: clock redraws counted over three seconds
    display_pc,        \* display_thread: in its loop, or out of it
    stop_event,     \* threading.Event shared by the threads
    fb,             \* the framebuffer file object (display variant)
    main            \* the main thread: where it stands

framerVars ==
    <<stdin, typed, arrival_idle, current_input, input_idle, scan_queue,
      line, done_line>>

procVars ==
    <<cache, wall, retried, pc, pending, barcode, response, console, iter>>

displayVars == <<is_showing_clock, clock_age, display_left, screen, watch>>

shutVars == <<display_pc, stop_event, fb, main>>

vars ==
    <<variant, framerVars, procVars, display_queue, displayVars, shutVars>>

\* The process has not ended; its daemon threads run only while it lives.
Alive == main \notin {"ended", "killed"}

EmptyLine == [fed |-> <<>>, toks |-> <<>>, gap |-> FALSE]

InitFramer ==
    /\ stdin = <<>>
    /\ typed = 0
    /\ arrival_idle = 0
    /\ current_input = <<>>
    /\ input_idle = 0
    /\ scan_queue = <<>>
    /\ line = EmptyLine
    /\ done_line = [valid |-> FALSE, fed |-> <<>>, toks |-> <<>>,
                    gap |-> FALSE, busy |-> FALSE]

\* ------------------------------------------------------------ environment

\* The scanner sends one character.  gap records whether it arrived more
\* than INPUT_TIMEOUT after the character before it.
Type(c) ==
    /\ typed < MaxChars
    /\ typed' = typed + 1
    /\ stdin' = Append(stdin, [ch |-> c, gap |-> arrival_idle > INPUT_TIMEOUT])
    /\ arrival_idle' = 0
    /\ UNCHANGED <<current_input, input_idle, scan_queue, line, done_line>>
    /\ UNCHANGED <<variant, shutVars, procVars, display_queue, displayVars>>

\* ------------------------------------------------------- main input loop

\* if sys.stdin.isatty() and sys.stdin in select.select(...)[0]
InputReady == stdin # <<>>

\* time.time() - last_input_time > INPUT_TIMEOUT
NeverTimedOut(idle) == FALSE

TimedOut(idle) == idle > INPUT_TIMEOUT

\* processing_thread is inside a call that takes time: the flush of the
\* cache, requests.post, the handling of its outcome with cache_scan, or
\* the console variant's time.sleep(SCAN_DISPLAY_TIME).
Blocked == pc \in {"flush", "post", "handle", "showing"}

\* A hand-over that drops the token when processing_thread is not free to
\* take it.
PutIfFree(q, tok) == IF Blocked THEN q ELSE Append(q, tok)

\* A scan_queue that hands out the newest token first.
PutFront(q, tok) == <<tok>> \o q

\* scan_queue.put on a queue.Queue() without maxsize: it never waits and
\* never drops.
Put(q, tok) == Append(q, tok)

\* The branch that reads one character.
ReadChar ==
    /\ main = "loop"
    /\ InputReady
    /\ LET e == Head(stdin)
           char == e.ch
           emit == char = NL /\ current_input # <<>>
           tok == Strip(current_input)
           toks == IF emit THEN Append(line.toks, tok) ELSE line.toks
       IN /\ stdin' = Tail(stdin)
          /\ input_idle' = 0
          /\ IF char = NL
             THEN /\ scan_queue' =
                        IF emit THEN Put(scan_queue, tok) ELSE scan_queue
                  /\ current_input' = <<>>
                  /\ done_line' = [valid |-> TRUE, fed |-> line.fed,
                                   toks |-> toks, gap |-> line.gap,
                                   busy |-> Blocked]
                  /\ line' = EmptyLine
             ELSE /\ current_input' = Append(current_input, char)
                  /\ scan_queue' = scan_queue
                  /\ line' = [fed |-> Append(line.fed, char),
                              toks |-> line.toks,
                              gap |-> line.gap \/ (e.gap /\ line.fed # <<>>)]
                  /\ done_line' = done_line
    /\ UNCHANGED <<typed, arrival_idle>>
    /\ UNCHANGED <<variant, shutVars, procVars, display_queue, displayVars>>

\* The branch that flushes the buffer after an idle timeout.
FlushTimeout ==
    /\ main = "loop"
    /\ ~InputReady
    /\ current_input # <<>>
    /\ TimedOut(input_idle)
    /\ scan_queue' = Put(scan_queue, Strip(current_input))
    /\ current_input' = <<>>
    /\ line' = [line EXCEPT !.toks = Append(@, Strip(current_input))]
    /\ UNCHANGED <<stdin, typed, arrival_idle, input_idle, done_line>>
    /\ UNCHANGED <<variant, shutVars, procVars, display_queue, displayVars>>

\* One iteration of the while True loop of main; an iteration that takes
\* neither branch changes nothing.
MainLoop == ReadChar \/ FlushTimeout

\* ------------------------------------------------------ server responses

\* dict.get(key, default) on a parsed JSON object
Get(obj, key, default) == IF key \in DOMAIN obj THEN obj[key] ELSE default

\* The JSON objects a 200 response carries: with every field, with the
\* success flag alone, a refusal with and without code and message, and one
\* with no success flag.
Objects ==
    { [success |-> TRUE, action |-> "clock-out", name |-> "Alice"],
      [success |-> TRUE],
      [success |-> FALSE, code |-> "NOT_FOUND", message |-> "no such employee"],
      [success |-> FALSE],
      [name |-> "Alice"] }

\* A 200 body: a JSON object, JSON that is no object, or no JSON at all.
\* response.json() raises on the last; which class it raises is the
\* requests library's choice (ValueError before 2.27, since then
\* requests.exceptions.JSONDecodeError, a RequestException).
Bodies ==
    { [json |-> "object", obj |-> o] : o \in Objects }
    \cup { [json |-> "array"] }
    \cup { [json |-> "malformed", raises |-> e] :
             e \in {"ValueError", "RequestException"} }

ErrorStatuses == {404, 500}

\* What requests.post does: raise a RequestException, or return a response.
Responses ==
    { [kind |-> "transport"] }
    \cup { [kind |-> "http", status |-> s, text |-> t] :
             s \in ErrorStatuses, t \in {"", "oops"} }
    \cup { [kind |-> "http", status |-> 200, body |-> b] : b \in Bodies }

NoResponse == [kind |-> "none"]

\* The responses send_cached_scans tells apart (it reads the status only),
\* and a cache file that cannot be read back.
CachedResponses ==
    { [kind |-> "transport"],
      [kind |-> "unreadable"],
      [kind |-> "http", status |-> 500, text |-> ""],
      [kind |-> "http", status |-> 200,
       body |-> [json |-> "object", obj |-> [success |-> TRUE]]],
      [kind |-> "http", status |-> 200,
       body |-> [json |-> "object", obj |-> [success |-> FALSE]]] }

\* ---------------------------------------------------------- offline buffer

Files(c) == { rec.file : rec \in c }

\* cache_scan: one file named after the timestamp taken; ok is whether the
\* write went through.
CacheScanLoses(c, stamp, id, ok) == c

CacheScan(c, stamp, id, ok) ==
    IF ok
    THEN { rec \in c : rec.file # stamp }
         \cup {[file |-> stamp, idNumber |-> id, deviceId |-> DEVICE_ID]}
    ELSE c

\* A flush that removes nothing.
AfterCachedSendKeeps(c, f, r) == c

\* A flush that removes every record it has tried.
AfterCachedSendDrops(c, f, r) == { rec \in c : rec.file # f }

\* send_cached_scans, the body of its for loop for one file:
\* os.remove when response.status_code == 200, whatever the body says.
AfterCachedSend(c, f, r) ==
    IF r.kind = "http" /\ r.status = 200
    THEN { rec \in c : rec.file # f }
    ELSE c

\* ----------------------------------------------------------- process_barcode

\* Which except clause the try block of process_barcode ends in, "none"
\* when it runs to its end.
Raised(r) ==
    IF r.kind = "transport" THEN "RequestException"
    ELSE IF r.status # 200 THEN "none"
    ELSE IF r.body.json = "malformed"
         THEN (IF r.body.raises = "RequestException"
               THEN "RequestException" ELSE "Exception")
    ELSE IF r.body.json # "object" THEN "Exception"
    ELSE "none"

\* str(e) of the exception the generic except clause catches
Description(r) ==
    IF r.body.json = "malformed" THEN "JSONDecodeError" ELSE "AttributeError"

\* signal_success() runs on every 200 whose body parsed, before the body is
\* looked at; signal_error() on a non-200 and in both except clauses.
Cues(r) ==
    (IF r.kind = "http" /\ r.status = 200 /\ r.body.json # "malformed"
     THEN <<"success">> ELSE <<>>)
    \o (IF Raised(r) # "none" \/ (r.kind = "http" /\ r.status # 200)
        THEN <<"error">> ELSE <<>>)

SuccessEventNoDefault(obj) ==
    [type |-> "success",
     action |-> Get(obj, "action", ""),
     name |-> Get(obj, "name", ""),
     duration |-> SCAN_DISPLAY_TIME]

SuccessEvent(obj) ==
    [type |-> "success",
     action |-> Get(obj, "action", "clock-in"),
     name |-> Get(obj, "name", ""),
     duration |-> SCAN_DISPLAY_TIME]

ErrorEvent(code, message) ==
    [type |-> "error", message |-> message, code |-> code,
     duration |-> SCAN_DISPLAY_TIME]

\* The display request of the display variant; cached is cache_scan's answer.
DisplayEvent(r, cached) ==
    IF Raised(r) = "RequestException"
    THEN ErrorEvent("NETWORK_ERROR",
                    "network connection failed"
                    \o (IF cached THEN ", scan cached" ELSE ""))
    ELSE IF Raised(r) = "Exception"
    THEN ErrorEvent("UNEXPECTED_ERROR", "processing error: " \o Description(r))
    ELSE IF r.status # 200
    THEN ErrorEvent("HTTP_" \o ToString(r.status),
                    "server error (" \o ToString(r.status) \o ")")
    ELSE IF Get(r.body.obj, "success", FALSE) = TRUE
    THEN SuccessEvent(r.body.obj)
    ELSE ErrorEvent(Get(r.body.obj, "code", "UNKNOWN_ERROR"),
                    Get(r.body.obj, "message", "unknown error"))

\* What display_result prints in the console variant.
ConsoleResult(r, cached) ==
    IF Raised(r) = "RequestException"
    THEN (IF cached
          THEN [type |-> "error", code |-> "NETWORK_ERROR",
                message |-> "network connection failed, scan cached"]
          ELSE [type |-> "error", code |-> "CACHE_ERROR",
                message |-> "network connection failed, and caching failed"])
    ELSE IF Raised(r) = "Exception"
    THEN [type |-> "error", code |-> "UNEXPECTED_ERROR",
          message |-> Description(r)]
    ELSE IF r.status # 200
    THEN [type |-> "error", code |-> "HTTP_" \o ToString(r.status),
          message |-> IF r.text # "" THEN r.text ELSE "server returned an error"]
    ELSE IF Get(r.body.obj, "success", FALSE) = TRUE
    THEN [type |-> "success",
          action |-> IF Get(r.body.obj, "action", "") = "clock-in"
                     THEN "clock-in" ELSE "clock-out",
          name |-> Get(r.body.obj, "name", "employee")]
    ELSE [type |-> "error",
          code |-> Get(r.body.obj, "code", "UNKNOWN_ERROR"),
          message |-> Get(r.body.obj, "message", "unknown error")]

\* Only the RequestException clause calls cache_scan.
CachesAlways(r) == TRUE

Caches(r) == Raised(r) = "RequestException"

\* ---------------------------------------------------------- processing_thread

NoBarcode == <<"-">>

NewIter ==
    [flushed |-> FALSE, snapshot |-> {}, log |-> <<>>, cues |-> <<>>,
     cache_calls |-> 0, cached |-> FALSE, posts |-> 0, sent |-> <<>>,
     before |-> {}, result |-> [type |-> "none"]]

InitProcessor ==
    /\ cache = {}
    /\ wall = 0
    /\ retried = [refused |-> {}, resent |-> {}]
    /\ pc = "top"
    /\ pending = {}
    /\ barcode = NoBarcode
    /\ response = NoResponse
    /\ console = [type |-> "header"]
    /\ iter = NewIter

\* send_cached_scans with no early return: the for loop is entered with
\* whatever was listed.
AfterListingLoops(files) == "flush"

\* send_cached_scans: `if not cache_files: return`, else the for loop.
AfterListing(files) == IF files = {} THEN "get" ELSE "flush"

\* send_cached_scans: os.listdir, and the early return on an empty list.
ListCache ==
    /\ Alive
    /\ pc = "top"
    /\ ~stop_event
    /\ pending' = Files(cache)
    /\ pc' = AfterListing(Files(cache))
    /\ iter' = [iter EXCEPT !.snapshot = Files(cache),
                            !.flushed = (cache = {})]
    /\ UNCHANGED <<cache, wall, retried, barcode, response, console>>
    /\ UNCHANGED <<framerVars, display_queue, displayVars, variant, shutVars>>

\* os.listdir raises (CACHE_DIR is gone): the except clause of
\* processing_thread logs it and the iteration ends without a get.
ListCacheFails ==
    /\ Alive
    /\ pc = "top"
    /\ ~stop_event
    /\ pc' = "sleep"
    /\ UNCHANGED <<cache, wall, retried, pending, barcode, response>>
    /\ UNCHANGED <<console, iter>>
    /\ UNCHANGED <<framerVars, display_queue, displayVars, variant, shutVars>>

\* The server took the request and turned it down: a status other than
\* 200, or 200 with a body whose success flag is absent or false.
ApplicationFailure(r) ==
    /\ r.kind = "http"
    /\ \/ r.status # 200
       \/ r.body.json = "object" /\ Get(r.body.obj, "success", FALSE) # TRUE

\* send_cached_scans: one turn of its for loop.
StopAtFailure(p, f, r) ==
    IF r.kind = "http" /\ r.status = 200 THEN p \ {f} ELSE {}

RestOfFiles(p, f, r) == p \ {f}

SendCached(f, r) ==
    /\ Alive
    /\ pc = "flush"
    /\ f \in pending
    /\ cache' = AfterCachedSend(cache, f, r)
    /\ pending' = RestOfFiles(pending, f, r)
    /\ pc' = IF pending' = {} THEN "get" ELSE "flush"
    /\ iter' = [iter EXCEPT !.log = Append(@, [file |-> f, response |-> r]),
                            !.flushed = (pending' = {})]
    /\ retried' =
        [refused |-> (retried.refused \cup
                        IF ApplicationFailure(r) THEN {f} ELSE {})
                     \cap Files(cache'),
         resent |-> (retried.resent \cup
                        IF f \in retried.refused THEN {f} ELSE {})
                    \cap Files(cache')]
    /\ UNCHANGED <<wall, barcode, response, console>>
    /\ UNCHANGED <<framerVars, display_queue, displayVars, variant, shutVars>>

\* scan_queue.get(timeout=1) returns a token, and process_barcode starts:
\* an empty token returns at once.
TakeTokenFirst ==
    /\ Alive
    /\ pc \in {"top", "get"}
    /\ scan_queue # <<>>
    /\ barcode' = Head(scan_queue)
    /\ scan_queue' = Tail(scan_queue)
    /\ pc' = IF Head(scan_queue) = <<>> THEN "sleep" ELSE "post"
    /\ UNCHANGED <<cache, wall, retried, pending, response, console, iter>>
    /\ UNCHANGED <<stdin, typed, arrival_idle, current_input, input_idle,
                   line, done_line, display_queue, displayVars, variant,
                   shutVars>>

TakeToken ==
    /\ Alive
    /\ pc = "get"
    /\ scan_queue # <<>>
    /\ barcode' = Head(scan_queue)
    /\ scan_queue' = Tail(scan_queue)
    /\ pc' = IF Head(scan_queue) = <<>> THEN "sleep" ELSE "post"
    /\ UNCHANGED <<cache, wall, retried, pending, response, console, iter>>
    /\ UNCHANGED <<stdin, typed, arrival_idle, current_input, input_idle,
                   line, done_line, display_queue, displayVars, variant,
                   shutVars>>

\* scan_queue.get(timeout=1) raises queue.Empty.
QueueEmpty ==
    /\ Alive
    /\ pc = "get"
    /\ scan_queue = <<>>
    /\ pc' = "sleep"
    /\ UNCHANGED <<cache, wall, retried, pending, barcode, response>>
    /\ UNCHANGED <<console, iter>>
    /\ UNCHANGED <<framerVars, display_queue, displayVars, variant, shutVars>>

\* A payload that names no one.
PayloadOfNoOne(id) == [idNumber |-> <<>>, deviceId |-> DEVICE_ID]

\* process_barcode: the JSON body of the request.
Payload(id) == [idNumber |-> id, deviceId |-> DEVICE_ID]

\* process_barcode: requests.post of {idNumber, deviceId}.
Post(r) ==
    /\ Alive
    /\ pc = "post"
    /\ response' = r
    /\ pc' = "handle"
    /\ iter' = [iter EXCEPT !.posts = @ + 1, !.before = cache,
                            !.sent = Append(@, Payload(barcode))]
    /\ UNCHANGED <<cache, wall, retried, pending, barcode, console>>
    /\ UNCHANGED <<framerVars, display_queue, displayVars, variant, shutVars>>

\* datetime.now() in cache_scan.  The wall clock is not monotonic (it is
\* stepped when the time is set, and a Raspberry Pi has no clock of its
\* own to keep it over a restart), so a reading may be a later one or
\* repeat an earlier one.
Readings(w, reads) == IF reads THEN 1..(w + 1) ELSE {w}

\* process_barcode: everything after requests.post, for the response held.
\* ok is whether cache_scan's write goes through.
Handle(ok) ==
    /\ Alive
    /\ pc = "handle"
    /\ LET r == response
           calls == Caches(r)
           cached == calls /\ ok
           result == IF variant = "display" THEN DisplayEvent(r, cached)
                     ELSE ConsoleResult(r, cached)
       IN /\ \E now \in Readings(wall, calls) :
               /\ cache' = IF calls THEN CacheScan(cache, now, barcode, ok)
                           ELSE cache
               /\ wall' = IF now > wall THEN now ELSE wall
               /\ retried' = IF calls /\ ok
                             THEN [refused |-> retried.refused \ {now},
                                   resent |-> retried.resent \ {now}]
                             ELSE retried
          /\ display_queue' = IF variant = "display"
                              THEN Append(display_queue, result)
                              ELSE display_queue
          /\ console' = IF variant = "console" THEN result ELSE console
          /\ iter' = [iter EXCEPT !.cues = Cues(r),
                                  !.cache_calls = IF calls THEN 1 ELSE 0,
                                  !.cached = cached,
                                  !.result = result]
    /\ pc' = IF variant = "console" THEN "showing" ELSE "sleep"
    /\ UNCHANGED <<pending, barcode, response>>
    /\ UNCHANGED <<framerVars, displayVars, variant, shutVars>>

\* Console variant: time.sleep(SCAN_DISPLAY_TIME) is over, display_header().
ShowHeader ==
    /\ Alive
    /\ pc = "showing"
    /\ console' = [type |-> "header"]
    /\ pc' = "sleep"
    /\ UNCHANGED <<cache, wall, retried, pending, barcode, response, iter>>
    /\ UNCHANGED <<framerVars, display_queue, displayVars, variant, shutVars>>

\* time.sleep(0.1), and the next iteration of the while loop.
NextIteration ==
    /\ Alive
    /\ pc = "sleep"
    /\ pc' = "top"
    /\ barcode' = NoBarcode
    /\ response' = NoResponse
    /\ iter' = NewIter
    /\ UNCHANGED <<cache, wall, retried, pending, console>>
    /\ UNCHANGED <<framerVars, display_queue, displayVars, variant, shutVars>>

\* -------------------------------------------------------------- display_thread

ClockEvent == [type |-> "clock", duration |-> 0]

\* Nobody counts the redraws of the clock face yet.
NoWatch == [state |-> "idle", ticks |-> 0, redraws |-> 0]

InitDisplay ==
    /\ display_queue = IF variant = "display" THEN <<ClockEvent>> ELSE <<>>
    /\ watch = NoWatch
    /\ is_showing_clock = TRUE
    /\ clock_age = CLOCK_UPDATE_INTERVAL
    /\ display_left = -1
    /\ screen = [image |-> "blank"]

\* draw_success_screen(action, name, time, date)
SuccessScreen(ev) ==
    [image |-> "success", action |-> ev.action, name |-> ev.name]

\* draw_clock()
ClockScreen == [image |-> "clock"]

\* update_screen(image): what the framebuffer shows afterwards.  Writing to
\* a closed file raises ValueError, which update_screen logs and swallows:
\* the surface keeps what it showed.
UpdateScreen(image) == IF fb = "closed" THEN screen ELSE image

\* The watch after an iteration that took a request: the seconds it counts
\* over are not free of display events.
Disturbed ==
    IF watch.state = "on" THEN [NoWatch EXCEPT !.state = "void"] ELSE watch

\* The watch after an iteration that found display_queue empty.
Counted(redraw) ==
    IF watch.state = "on" /\ redraw
    THEN [watch EXCEPT !.redraws = @ + 1]
    ELSE watch

\* display_thread is inside its while loop, and the loop's test of
\* stop_event came out as `stopping` says.
InLoop(stopping) ==
    /\ Alive
    /\ variant = "display"
    /\ display_pc = "loop"
    /\ stop_event = stopping

\* The body of an iteration of display_thread that finds a request in
\* display_queue.
TakeRequest ==
    /\ display_queue # <<>>
    /\ LET display_request == Head(display_queue)
       IN /\ display_queue' = Tail(display_queue)
          /\ IF display_request.type = "success"
             THEN /\ screen' = UpdateScreen(SuccessScreen(display_request))
                  /\ is_showing_clock' = FALSE
                  /\ display_left' = display_request.duration
             ELSE IF display_request.type = "error"
             THEN /\ screen' = UpdateScreen(ClockScreen)
                  /\ is_showing_clock' = TRUE
                  /\ display_left' = display_left
             ELSE UNCHANGED <<screen, is_showing_clock, display_left>>
    /\ watch' = Disturbed
    /\ UNCHANGED clock_age
    /\ UNCHANGED <<variant, framerVars, procVars>>

\* The same body with no CLOCK_UPDATE_INTERVAL to wait for: the clock is
\* redrawn as soon as any time has passed.
FindEmptyEager ==
    /\ display_queue = <<>>
    /\ LET expired == ~is_showing_clock /\ display_left < 0
           clock == is_showing_clock \/ expired
           redraw == clock /\ clock_age >= 1
       IN /\ is_showing_clock' = clock
          /\ screen' = IF redraw THEN UpdateScreen(ClockScreen) ELSE screen
          /\ clock_age' = IF redraw THEN 0 ELSE clock_age
          /\ watch' = Counted(redraw)
    /\ UNCHANGED <<display_left, display_queue>>
    /\ UNCHANGED <<variant, framerVars, procVars>>

\* The body of an iteration of display_thread that finds display_queue
\* empty: the result on show expires, and the clock is redrawn when it is
\* due.
FindEmpty ==
    /\ display_queue = <<>>
    /\ LET expired == ~is_showing_clock /\ display_left < 0
           clock == is_showing_clock \/ expired
           redraw == clock /\ clock_age >= CLOCK_UPDATE_INTERVAL
       IN /\ is_showing_clock' = clock
          /\ screen' = IF redraw THEN UpdateScreen(ClockScreen) ELSE screen
          /\ clock_age' = IF redraw THEN 0 ELSE clock_age
          /\ watch' = Counted(redraw)
    /\ UNCHANGED <<display_left, display_queue>>
    /\ UNCHANGED <<variant, framerVars, procVars>>

\* One iteration of display_thread that finds a request in display_queue.
ShowRequest == InLoop(FALSE) /\ TakeRequest /\ UNCHANGED shutVars

\* An idle iteration that forgets the expiry time: any result on show is
\* dropped for the clock at once.
ShowIdleEarly ==
    /\ InLoop(FALSE)
    /\ display_queue = <<>>
    /\ LET redraw == clock_age >= CLOCK_UPDATE_INTERVAL
       IN /\ is_showing_clock' = TRUE
          /\ screen' = IF redraw THEN ClockScreen ELSE screen
          /\ clock_age' = IF redraw THEN 0 ELSE clock_age
          /\ watch' = Counted(redraw)
    /\ UNCHANGED <<display_left, display_queue>>
    /\ UNCHANGED <<variant, shutVars, framerVars, procVars>>

\* One iteration of display_thread that finds display_queue empty.
ShowIdle == InLoop(FALSE) /\ FindEmpty /\ UNCHANGED shutVars

\* ---------------------------------------------------------------------- time

\* Three seconds, the time a watch lasts, in ticks: CLOCK_UPDATE_INTERVAL
\* is one second.
WatchSeconds == 3
WatchTicks == WatchSeconds * CLOCK_UPDATE_INTERVAL

\* The watch half a second later.  When its time is up it is done, or void
\* if a request has come that display_thread has not taken yet.
Timed ==
    IF watch.state # "on" THEN watch
    ELSE IF watch.ticks + 1 < WatchTicks THEN [watch EXCEPT !.ticks = @ + 1]
    ELSE IF display_queue # <<>> THEN [NoWatch EXCEPT !.state = "void"]
    ELSE [watch EXCEPT !.state = "done", !.ticks = WatchTicks]

\* Half a second passes: every age grows, every deadline comes closer.
HalfSecond ==
    /\ arrival_idle' = Older(arrival_idle, INPUT_TIMEOUT + 1)
    /\ input_idle' = Older(input_idle, INPUT_TIMEOUT + 1)
    /\ clock_age' = Older(clock_age, CLOCK_UPDATE_INTERVAL)
    /\ display_left' = IF display_left >= 0 THEN display_left - 1 ELSE -1
    /\ UNCHANGED <<stdin, typed, current_input, scan_queue, line, done_line>>
    /\ UNCHANGED <<variant, procVars, display_queue, is_showing_clock, screen>>
    /\ UNCHANGED shutVars

Tick == HalfSecond /\ watch' = Timed

\* -------------------------------------------------------------------- shutdown

Signals == {"SIGINT", "SIGTERM"}

\* The threads are started, the framebuffer is open (display variant; the
\* console variant has neither display_thread nor framebuffer).
InitShutdown ==
    /\ stop_event = FALSE
    /\ main = "loop"
    /\ fb = IF variant = "display" THEN "open" ELSE "none"
    /\ display_pc = IF variant = "display" THEN "loop" ELSE "none"

\* What a signal does to the main thread in its loop.  The display variant
\* has signal_handler registered for both signals.  The console variant
\* registers nothing: SIGINT is Python's KeyboardInterrupt, caught by
\* main's except clause, and SIGTERM ends the process at once.
Disposition(sig) ==
    IF variant = "display" THEN "handler"
    ELSE IF sig = "SIGINT" THEN "finally"
    ELSE "killed"

\* SIGINT or SIGTERM arrives while main is in its loop.
Signal(sig) ==
    /\ main = "loop"
    /\ main' = Disposition(sig)
    /\ UNCHANGED <<display_pc, stop_event, fb>>
    /\ UNCHANGED <<variant, framerVars, procVars, display_queue, displayVars>>

\* The main loop raises something else (reading stdin fails): no except
\* clause takes it and the finally clause runs.
MainFails ==
    /\ main = "loop"
    /\ main' = "finally"
    /\ UNCHANGED <<display_pc, stop_event, fb>>
    /\ UNCHANGED <<variant, framerVars, procVars, display_queue, displayVars>>

\* signal_handler calls cleanup(): stop_event.set().
CleanupStop ==
    /\ main = "handler"
    /\ stop_event' = TRUE
    /\ main' = "closing"
    /\ UNCHANGED <<display_pc, fb>>
    /\ UNCHANGED <<variant, framerVars, procVars, display_queue, displayVars>>

\* cleanup(): fb.close(); then signal_handler calls sys.exit(0), and the
\* SystemExit it raises reaches main's finally clause.
CleanupClose ==
    /\ main = "closing"
    /\ fb' = "closed"
    /\ main' = "finally"
    /\ UNCHANGED <<display_pc, stop_event>>
    /\ UNCHANGED <<variant, framerVars, procVars, display_queue, displayVars>>

\* main's finally clause: cleanup() in the display variant, stop_event.set()
\* in the console variant.  Then main returns or the exception goes on, the
\* interpreter exits and the daemon threads end where they stand.
Finally ==
    /\ main = "finally"
    /\ stop_event' = TRUE
    /\ fb' = IF variant = "display" THEN "closed" ELSE fb
    /\ main' = "ended"
    /\ UNCHANGED display_pc
    /\ UNCHANGED <<variant, framerVars, procVars, display_queue, displayVars>>

\* processing_thread finds stop_event set at the head of its while loop.
ProcessorStops ==
    /\ Alive
    /\ pc = "top"
    /\ stop_event
    /\ pc' = "done"
    /\ UNCHANGED <<cache, wall, retried, pending, barcode, response>>
    /\ UNCHANGED <<console, iter>>
    /\ UNCHANGED <<framerVars, display_queue, displayVars, variant, shutVars>>

\* display_thread finds stop_event set at the head of its while loop.
DisplayStops ==
    /\ Alive
    /\ display_pc = "loop"
    /\ stop_event
    /\ display_pc' = "done"
    /\ UNCHANGED <<stop_event, fb, main>>
    /\ UNCHANGED <<variant, framerVars, procVars, display_queue, displayVars>>

\* display_thread found stop_event clear at the head of its while loop, and
\* cleanup() ran before the body: the body runs once more, and the next
\* test of stop_event ends the loop.
ShowLast ==
    /\ InLoop(TRUE)
    /\ TakeRequest \/ FindEmpty
    /\ display_pc' = "done"
    /\ UNCHANGED <<stop_event, fb, main>>

\* The steps of a shutdown.
Shutdown ==
    \/ \E sig \in Signals : Signal(sig)
    \/ MainFails
    \/ CleanupStop
    \/ CleanupClose
    \/ Finally
    \/ ProcessorStops
    \/ DisplayStops
    \/ ShowLast

\* ------------------------------------------------------------- specification

Init ==
    /\ variant \in Variants
    /\ InitFramer
    /\ InitProcessor
    /\ InitDisplay
    /\ InitShutdown

\* Every worker and the environment.
Next ==
    \/ \E c \in Chars : Type(c)
    \/ Tick
    \/ MainLoop
    \/ ListCache
    \/ ListCacheFails
    \/ \E f \in pending, r \in CachedResponses : SendCached(f, r)
    \/ TakeToken
    \/ QueueEmpty
    \/ \E r \in Responses : Post(r)
    \/ \E ok \in BOOLEAN : Handle(ok)
    \/ ShowHeader
    \/ NextIteration
    \/ ShowRequest
    \/ ShowIdle
    \/ Shutdown

Spec == Init /\ [][Next]_vars

\* The Input Framer on its own: the scanner, the clock and the main loop.
NextFramer ==
    \/ \E c \in Chars : Type(c)
    \/ Tick
    \/ MainLoop

SpecFramer == Init /\ [][NextFramer]_vars

\* main never stops looping (while True, time.sleep(0.01)) and time passes.
FairFramer == SpecFramer /\ WF_vars(MainLoop) /\ WF_vars(Tick)

\* The Scan Processor and the Offline Buffer, fed by the main loop.  No time
\* passes here: processing_thread reads no clock, and without Tick the
\* timeout branch of main never runs, so every token comes from a terminator.
NextProcessor ==
    \/ \E c \in Chars : Type(c)
    \/ ReadChar
    \/ ListCache
    \/ ListCacheFails
    \/ \E f \in pending, r \in CachedResponses : SendCached(f, r)
    \/ TakeToken
    \/ QueueEmpty
    \/ \E r \in Responses : Post(r)
    \/ \E ok \in BOOLEAN : Handle(ok)
    \/ ShowHeader
    \/ NextIteration

SpecProcessor == Init /\ [][NextProcessor]_vars

\* One step of processing_thread, with CACHE_DIR in place.
ProcessingThread ==
    \/ ListCache
    \/ \E f \in pending, r \in CachedResponses : SendCached(f, r)
    \/ TakeToken
    \/ QueueEmpty
    \/ \E r \in Responses : Post(r)
    \/ \E ok \in BOOLEAN : Handle(ok)
    \/ ShowHeader
    \/ NextIteration

NextDrain ==
    \/ \E c \in Chars : Type(c)
    \/ ReadChar
    \/ ProcessingThread

\* processing_thread keeps running while stop_event is clear (no signal
\* comes here): its blocking calls all carry a timeout.  So does main.
FairProcessor ==
    Init /\ [][NextDrain]_vars /\ WF_vars(ProcessingThread) /\ WF_vars(ReadChar)

\* The Display Scheduler of the display variant behind the Scan Processor,
\* with time passing.  The scanner sends code characters and terminators
\* only, and main is scheduled only to read a character that is ready.
NextDisplay ==
    \/ \E c \in {"a", NL} : Type(c)
    \/ ReadChar
    \/ ListCache
    \/ ListCacheFails
    \/ \E f \in pending, r \in CachedResponses : SendCached(f, r)
    \/ TakeToken
    \/ QueueEmpty
    \/ \E r \in Responses : Post(r)
    \/ \E ok \in BOOLEAN : Handle(ok)
    \/ NextIteration
    \/ Tick
    \/ ShowRequest
    \/ ShowIdle

InitDisplayVariant == Init /\ variant = "display"

SpecDisplay == InitDisplayVariant /\ [][NextDisplay]_vars

\* The two variants with a shutdown: the scanner, main, both threads, one
\* signal or failure of the main loop, and what follows it.
NextShutdown ==
    \/ \E c \in {"a", NL} : Type(c)
    \/ ReadChar
    \/ ListCache
    \/ \E f \in pending, r \in CachedResponses : SendCached(f, r)
    \/ TakeToken
    \/ QueueEmpty
    \/ \E r \in Responses : Post(r)
    \/ \E ok \in BOOLEAN : Handle(ok)
    \/ ShowHeader
    \/ NextIteration
    \/ ShowRequest
    \/ ShowIdle
    \/ \E sig \in Signals : Signal(sig)
    \/ MainFails
    \/ CleanupStop
    \/ CleanupClose
    \/ Finally
    \/ ProcessorStops
    \/ DisplayStops
    \/ ShowLast

SpecShutdown == Init /\ [][NextShutdown]_vars

\* A server that is reached: requests.post returns some response, nothing
\* is cached and the cache stays empty.
Answers == { a \in Responses : ~Caches(a) }

\* Half a second passes with no character left unread: main looks for
\* input every 0.01 s, so a character that is ready is read well within
\* the half second in which it came.
PromptTick == stdin = <<>> /\ Tick

\* The Display Scheduler with such a server and such a main loop: success
\* and error requests reach display_queue at any time.
NextScheduler ==
    \/ \E c \in {"a", NL} : Type(c)
    \/ ReadChar
    \/ ListCache
    \/ TakeToken
    \/ QueueEmpty
    \/ \E r \in Answers : Post(r)
    \/ \E ok \in BOOLEAN : Handle(ok)
    \/ NextIteration
    \/ PromptTick
    \/ ShowRequest
    \/ ShowIdle

SpecScheduler == InitDisplayVariant /\ [][NextScheduler]_vars

\* display_thread never stops looping while stop_event is clear (its while
\* loop sleeps 0.1 s a turn), nor does main, and time passes.
FairScheduler ==
    /\ SpecScheduler
    /\ WF_vars(ReadChar)
    /\ WF_vars(PromptTick)
    /\ WF_vars(ShowRequest \/ ShowIdle)

\* str(): the characters of a token as one string.
RECURSIVE Spell(_)
Spell(tok) == IF tok = <<>> THEN "" ELSE Head(tok) \o Spell(Tail(tok))

\* A server that tells who scanned: it answers 200 with the idNumber it was
\* sent, as the name of an accepted scan or as the message of a refused one.
Echoes(id) ==
    { [kind |-> "http", status |-> 200,
       body |-> [json |-> "object", obj |-> o]] :
        o \in { [success |-> TRUE, name |-> Spell(id)],
                [success |-> FALSE, message |-> Spell(id)] } }

\* The display variant from scanner to screen, with two badges and with
\* such a server among the others.  No time passes: neither queue looks at
\* a clock.
NextOrder ==
    \/ \E c \in {"a", "b", NL} : Type(c)
    \/ ReadChar
    \/ ListCache
    \/ \E f \in pending, r \in CachedResponses : SendCached(f, r)
    \/ TakeToken
    \/ QueueEmpty
    \/ \E r \in Responses \cup Echoes(Payload(barcode).idNumber) : Post(r)
    \/ \E ok \in BOOLEAN : Handle(ok)
    \/ NextIteration
    \/ ShowRequest
    \/ ShowIdle

SpecOrder == InitDisplayVariant /\ [][NextOrder]_vars

\* A watch starts on a half-second boundary: the clock face is up, the
\* display worker is in ShowingClock and display_queue is empty.  From here
\* on the redraws of the clock face are counted for three seconds.
StartWatch ==
    /\ InLoop(FALSE)
    /\ watch.state = "idle"
    /\ is_showing_clock
    /\ screen = ClockScreen
    /\ display_queue = <<>>
    /\ stdin = <<>>
    /\ HalfSecond
    /\ watch' = [NoWatch EXCEPT !.state = "on"]

\* display_thread has had its turn: its loop sleeps 0.1 s an iteration, so
\* by the end of a half second it has taken every request and drawn what
\* was due, and one more iteration would change nothing.
Settled == ~ENABLED <<ShowRequest \/ ShowIdle>>_vars

\* A half second passes in which main and display_thread kept their pace.
TimelyTick == Settled /\ PromptTick

\* A server that answers every scan with its verdict and nothing more.
Verdicts ==
    { r \in Answers : /\ r.status = 200
                      /\ r.body.json = "object"
                      /\ DOMAIN r.body.obj = {"success"} }

\* The Display Scheduler at the pace of its loop, with one watch kept on
\* its clock face.
NextClock ==
    \/ \E c \in {"a", NL} : Type(c)
    \/ ReadChar
    \/ ListCache
    \/ TakeToken
    \/ QueueEmpty
    \/ \E r \in Verdicts : Post(r)
    \/ \E ok \in BOOLEAN : Handle(ok)
    \/ NextIteration
    \/ TimelyTick
    \/ Settled /\ StartWatch
    \/ ShowRequest
    \/ ShowIdle

SpecClock == InitDisplayVariant /\ [][NextClock]_vars

\* ----------------------------------------------------------------------
\* Claims
\* ----------------------------------------------------------------------

\* The sequence with its surrounding whitespace removed, said without
\* str.strip(): what lies between the first and the last character that is
\* not whitespace.
Trimmed(s) ==
    LET solid == { i \in 1..Len(s) : s[i] \notin Whitespace }
    IN IF solid = {} THEN <<>>
       ELSE SubSeq(s, CHOOSE i \in solid : \A j \in solid : i <= j,
                      CHOOSE i \in solid : \A j \in solid : j <= i)

\* C1 as stated: every character sequence that ends in a line terminator
\* puts exactly one token on scan_queue, the trimmed sequence, however its
\* characters are spaced and also when it is the terminator alone.
C1_EveryLineOneToken ==
    done_line.valid => done_line.toks = <<Trimmed(done_line.fed)>>

\* C1 amended: a sequence with at least one character before its terminator,
\* whose characters before the terminator arrive no more than INPUT_TIMEOUT
\* apart, puts exactly one token on scan_queue, the trimmed sequence (the
\* empty token when it is all whitespace).
C1_UnpausedLineOneToken ==
    (done_line.valid /\ done_line.fed # <<>> /\ ~done_line.gap)
        => done_line.toks = <<Trimmed(done_line.fed)>>

\* A line "a ", then its terminator, read with no pause: one token "a".
C1_Witness ==
    /\ done_line.valid
    /\ ~done_line.gap
    /\ done_line.fed = <<"a", " ">>
    /\ done_line.toks = << <<"a">> >>
    /\ scan_queue = << <<"a">> >>

\* C2: with a non-empty buffer and no character ready, the main loop puts a
\* token on scan_queue only as one token, the trimmed buffer, and clears the
\* buffer with it; with an empty buffer and no character ready it puts
\* nothing; and a buffer left with no character ready is in the end flushed,
\* unless a character arrives first.
C2_IdleFlush ==
    /\ [][ /\ (~InputReady /\ current_input # <<>> /\ scan_queue' # scan_queue)
              => /\ scan_queue' = Append(scan_queue, Trimmed(current_input))
                 /\ current_input' = <<>>
           /\ (~InputReady /\ current_input = <<>> /\ stdin' = <<>>)
              => scan_queue' = scan_queue ]_vars
    /\ (current_input # <<>> /\ ~InputReady)
          ~> (current_input = <<>> \/ InputReady)

\* A buffer " a" was flushed by the timeout: its token "a" is on the queue,
\* the buffer is empty, and no terminator was read.
C2_Witness ==
    /\ line.fed = <<" ", "a">>
    /\ line.toks = << <<"a">> >>
    /\ current_input = <<>>
    /\ scan_queue = << <<"a">> >>
    /\ ~done_line.valid

\* ------------------------------------------------- claims on the processor

\* The spec's reading of a delivery attempt: success is HTTP 200 with a
\* body whose success flag is true.
Delivered(r) ==
    /\ r.kind = "http"
    /\ r.status = 200
    /\ r.body.json = "object"
    /\ Get(r.body.obj, "success", FALSE) = TRUE

\* A transport error, or an application failure.
FailedDelivery(r) ==
    \/ r.kind = "transport"
    \/ r.kind = "http" /\ r.status # 200
    \/ r.kind = "http" /\ r.status = 200 /\ r.body.json = "object"
       /\ Get(r.body.obj, "success", FALSE) # TRUE

\* send_cached_scans has just returned from a run over at least one file.
FlushEnded == pc = "get" /\ iter.flushed /\ iter.snapshot # {}

\* process_barcode has handled the response held in response.
Handled == pc \in {"sleep", "showing"} /\ iter.result.type # "none"

\* A delivery that ended in an exception or in a status other than 200.
Refused(r) == r.kind # "http" \/ r.status # 200

LogIndices == 1..Len(iter.log)

\* C3 as stated: in a run of send_cached_scans a record is gone only if the
\* delivery attempt for it returned success (HTTP 200 with a true success
\* flag), and a record whose attempt failed, by a transport error or by an
\* application failure, is still in the cache.
C3_RemovedOnlyAfterSuccess ==
    \A i \in LogIndices :
        LET e == iter.log[i]
        IN /\ e.file \notin Files(cache) => Delivered(e.response)
           /\ FailedDelivery(e.response) => e.file \in Files(cache)

\* In the run of send_cached_scans that has just ended exactly one delivery
\* was refused (an exception or a non-200) and every other one succeeded.
OneRefused ==
    LET refused == { i \in LogIndices : Refused(iter.log[i].response) }
    IN /\ FlushEnded
       /\ Cardinality(refused) = 1
       /\ \A i \in LogIndices \ refused : Delivered(iter.log[i].response)

\* Every record the run started with was attempted, once.
AllAttempted ==
    /\ Len(iter.log) = Cardinality(iter.snapshot)
    /\ { iter.log[i].file : i \in LogIndices } = iter.snapshot

\* C4 as stated: a run of send_cached_scans over N records in which the
\* delivery of one record is refused and every other one succeeds attempts
\* all N and leaves exactly N-1 records in the cache, the refused one among
\* them.
C4_LeavesAllButOne ==
    OneRefused =>
        /\ AllAttempted
        /\ Cardinality(cache) = Cardinality(iter.snapshot) - 1
        /\ \A i \in LogIndices :
              Refused(iter.log[i].response) => iter.log[i].file \in Files(cache)

\* C4 amended: such a run attempts all N records and leaves exactly one
\* record in the cache, the refused one; the N-1 others are removed.
C4_LeavesTheRefused ==
    OneRefused =>
        /\ AllAttempted
        /\ Files(cache) =
              { iter.log[i].file : i \in { j \in LogIndices :
                                             Refused(iter.log[j].response) } }
        /\ Cardinality(cache) = 1

\* A run over two records has ended: the first attempt was refused, the
\* second succeeded, and the one record left is the refused one.
C4_Witness ==
    /\ FlushEnded
    /\ Cardinality(iter.snapshot) = 2
    /\ Len(iter.log) = 2
    /\ Refused(iter.log[1].response)
    /\ Delivered(iter.log[2].response)
    /\ Files(cache) = {iter.log[1].file}

\* process_barcode has handled a transport error.
TransportHandled == Handled /\ response.kind = "transport"

\* What C5 asks of every handled transport error but the result's code:
\* one call of cache_scan, a failure result whose message says "cached"
\* exactly when cache_scan returned true, an error cue, and the record in
\* the cache when cache_scan returned true.
C5_Common ==
    /\ iter.cache_calls = 1
    /\ iter.result.type = "error"
    /\ (iter.result.message = "network connection failed, scan cached")
           <=> iter.cached
    /\ iter.cues = <<"error">>
    /\ iter.cached => \E rec \in cache : rec.idNumber = barcode

\* C5 as stated: a transport error on a fresh scan calls cache_scan once
\* and, whatever cache_scan returned, gives a failure result with code
\* NETWORK_ERROR and a message telling cached from not cached, with an
\* error cue; the record is in the cache if cache_scan returned true.
C5_AlwaysNetworkError ==
    TransportHandled => (C5_Common /\ iter.result.code = "NETWORK_ERROR")

\* C5 amended: the same, but the code is NETWORK_ERROR in the display
\* variant, and in the console variant NETWORK_ERROR when cache_scan
\* returned true and CACHE_ERROR when it returned false.
C5_TransportError ==
    TransportHandled =>
        /\ C5_Common
        /\ iter.result.code =
              IF variant = "console" /\ ~iter.cached
              THEN "CACHE_ERROR" ELSE "NETWORK_ERROR"

\* A transport error was handled, cache_scan returned true and the record
\* of that barcode is the only one in the cache.
C5_Witness ==
    /\ TransportHandled
    /\ iter.cached
    /\ iter.result.code = "NETWORK_ERROR"
    /\ cache = {[file |-> wall, idNumber |-> barcode, deviceId |-> DEVICE_ID]}

\* The code a non-200 status is to be shown with.
HttpCode(status) ==
    CASE status = 404 -> "HTTP_404"
      [] status = 500 -> "HTTP_500"

\* C6: a status other than 200 for a fresh scan gives a failure result with
\* code HTTP_<status>, an error cue and no other, no call of cache_scan, and
\* a cache that is what it was when the request was sent.
C6_HttpError ==
    (Handled /\ response.kind = "http" /\ response.status # 200)
        => /\ iter.result.type = "error"
           /\ iter.result.code = HttpCode(response.status)
           /\ iter.cues = <<"error">>
           /\ iter.cache_calls = 0
           /\ cache = iter.before

\* A 500 was handled while a record of an earlier scan sat in the cache.
C6_Witness ==
    /\ Handled
    /\ response.kind = "http"
    /\ response.status = 500
    /\ iter.result.code = "HTTP_500"
    /\ cache # {}
    /\ cache = iter.before

\* C7 as stated: a 200 response whose body is not a JSON object (not JSON
\* at all, or JSON of another kind) gives a failure result with code
\* UNEXPECTED_ERROR that carries the failure's description, with an error
\* cue, and writes no cache record, so that the scan is not sent again
\* (send_cached_scans sends only what is in the cache).
C7_UnexpectedError ==
    (/\ Handled
     /\ response.kind = "http"
     /\ response.status = 200
     /\ response.body.json # "object")
        => /\ iter.result.type = "error"
           /\ iter.result.code = "UNEXPECTED_ERROR"
           /\ iter.result.message \in
                 { "processing error: JSONDecodeError", "JSONDecodeError",
                   "processing error: AttributeError", "AttributeError" }
           /\ "error" \in { iter.cues[i] : i \in 1..Len(iter.cues) }
           /\ iter.cache_calls = 0
           /\ cache = iter.before

\* The display request a 200 response with a JSON object is to give, said
\* from the fields of the object.
Expected200(obj) ==
    IF "success" \in DOMAIN obj /\ obj.success = TRUE
    THEN [type |-> "success",
          action |-> IF "action" \in DOMAIN obj THEN obj.action ELSE "clock-in",
          name |-> IF "name" \in DOMAIN obj THEN obj.name ELSE "",
          duration |-> SCAN_DISPLAY_TIME]
    ELSE [type |-> "error",
          message |-> IF "message" \in DOMAIN obj THEN obj.message
                      ELSE "unknown error",
          code |-> IF "code" \in DOMAIN obj THEN obj.code ELSE "UNKNOWN_ERROR",
          duration |-> SCAN_DISPLAY_TIME]

\* C8: in the display variant, the step of process_barcode that handles a
\* 200 response with a JSON object puts exactly one request on
\* display_queue: a success request with the body's action and name
\* (clock-in and the empty name when absent) and duration SCAN_DISPLAY_TIME
\* when the success flag is true, else an error request with the body's code
\* and message (UNKNOWN_ERROR and "unknown error" when absent).
C8_Classify200 ==
    [][ (/\ variant = "display"
         /\ pc = "handle"
         /\ pc' # "handle"
         /\ response.kind = "http"
         /\ response.status = 200
         /\ response.body.json = "object")
        => display_queue' =
              Append(display_queue, Expected200(response.body.obj)) ]_vars

\* A 200 whose body is {"success": true} and nothing else was handled: the
\* request put on display_queue has the defaults.
C8_Witness ==
    /\ variant = "display"
    /\ Handled
    /\ response.kind = "http"
    /\ response.status = 200
    /\ response.body = [json |-> "object", obj |-> [success |-> TRUE]]
    /\ display_queue[Len(display_queue)] =
          [type |-> "success", action |-> "clock-in", name |-> "",
           duration |-> SCAN_DISPLAY_TIME]

\* C9: processing_thread takes a token from scan_queue only after
\* send_cached_scans has returned in the same iteration, and sends a fresh
\* request only then; a token it takes is the one it goes on to send (or an
\* empty one), and an iteration in which send_cached_scans has not returned
\* takes none.
C9_FlushBeforeDeliver ==
    [][ /\ Len(scan_queue') < Len(scan_queue)
           => /\ iter.flushed
              /\ barcode' = Head(scan_queue)
              /\ pc' = "post" \/ barcode' = <<>>
        /\ (pc = "post" /\ pc' = "handle") => iter.flushed
        /\ (~iter.flushed /\ ~iter'.flushed)
           => Len(scan_queue') >= Len(scan_queue) ]_vars

\* A token has been taken and is about to be sent, after a run of
\* send_cached_scans in which a delivery was refused.
C9_Witness ==
    /\ pc = "post"
    /\ iter.flushed
    /\ barcode = <<"a">>
    /\ \E i \in LogIndices : Refused(iter.log[i].response)

\* ---------------------------------------------- claims on the display thread

\* The screen a display request asks for.
ScreenOf(request) ==
    IF request.type = "success"
    THEN [image |-> "success", action |-> request.action,
          name |-> request.name]
    ELSE [image |-> "error", message |-> request.message,
          code |-> request.code]

\* C10 as stated: when display_thread, showing the clock, takes a success
\* or an error request from display_queue, that iteration renders the
\* request's screen, leaves is_showing_clock false and sets
\* current_display_end_time to now plus the request's duration.
C10_RequestShown ==
    [][ (/\ variant = "display"
         /\ display_queue # <<>>
         /\ display_queue' = Tail(display_queue)
         /\ Head(display_queue).type \in {"success", "error"}
         /\ is_showing_clock)
        => /\ screen' = ScreenOf(Head(display_queue))
           /\ ~is_showing_clock'
           /\ display_left' = Head(display_queue).duration ]_vars

\* A step of display_thread that found display_queue empty, or of another
\* worker that left the display requests alone.
QueueLeftAlone == display_queue' = display_queue

\* C11: while a result is shown and no request is taken from display_queue,
\* the scheduler goes back to the clock only when now is past
\* current_display_end_time, so that a result set for duration d that is
\* not pre-empted is not left before d has passed; and a result on show
\* gives way to the clock in the end.
C11_Expiry ==
    /\ [][ (~is_showing_clock /\ is_showing_clock' /\ QueueLeftAlone)
              => display_left < 0 ]_vars
    /\ [][ (~is_showing_clock /\ display_left < 0 /\ display_queue = <<>>
            /\ (screen' # screen \/ clock_age' < clock_age))
              => is_showing_clock' ]_vars
    /\ ~is_showing_clock ~> is_showing_clock

\* A result ran out: the clock is shown again, drawn afresh, after a
\* success screen whose time is up.
C11_Witness ==
    /\ is_showing_clock
    /\ display_left < 0
    /\ screen = ClockScreen
    /\ clock_age = 0
    /\ display_queue = <<>>
    /\ iter.result.type = "success"

\* C12 as stated, for the success and error requests: whatever is on show,
\* clock or a result whose time is not up, the iteration of display_thread
\* that takes a request from display_queue puts that request's screen in
\* place of the current one.
C12_Preempts ==
    [][ (/\ variant = "display"
         /\ display_queue # <<>>
         /\ display_queue' = Tail(display_queue)
         /\ Head(display_queue).type \in {"success", "error"})
        => screen' = ScreenOf(Head(display_queue)) ]_vars

\* C13: a non-empty token taken from scan_queue is posted exactly once, as
\* {idNumber: the token, deviceId}, and nothing is posted before
\* process_barcode has it; while an empty token is held nothing is posted,
\* no cache record is written and no result is put on display_queue or
\* on the console.
C13_OneRequestPerToken ==
    /\ [](pc \in {"top", "flush", "get", "post"} => iter.sent = <<>>)
    /\ []((pc \in {"handle", "showing", "sleep"}
           /\ barcode \notin {NoBarcode, <<>>})
          => iter.sent = <<[idNumber |-> barcode,
                            deviceId |-> "raspberrypi01"]>>)
    /\ [](barcode = <<>> => iter.sent = <<>>)
    /\ [][ barcode = <<>> => /\ cache' = cache
                             /\ display_queue' = display_queue
                             /\ console' = console ]_vars

\* A token with a blank inside was posted and handled.
C13_Witness ==
    /\ pc = "sleep"
    /\ barcode = <<"a", " ", "a">>
    /\ Len(iter.sent) = 1
    /\ iter.result.type # "none"

\* processing_thread is inside a delivery: a flush of the cache, a
\* requests.post, or the handling of its outcome.
InFlight == pc \in {"flush", "post", "handle"}

\* C14 as stated, in what it says of a delivery in flight: after the stop
\* signal each worker leaves its loop by finding stop_event set at an
\* iteration, a delivery in flight finishing first; so the process never
\* ends on a processing_thread that is still inside a delivery.
C14_DeliveryFinishesFirst ==
    (stop_event /\ main = "ended") => ~InFlight

\* C15 as stated: interrupt and terminate take the same shutdown path, and on
\* every shutdown path the stop signal is set and the framebuffer is
\* released before the process ends.
C15_EveryPathCleansUp ==
    ~Alive => (stop_event /\ fb # "open")

\* A turn of the for loop of send_cached_scans that does not end in a
\* successful delivery of its record.
FlushTurnFails ==
    /\ pc = "flush"
    /\ Len(iter'.log) = Len(iter.log) + 1
    /\ ~Delivered(iter'.log[Len(iter'.log)].response)

\* C16: with stop_event clear and the scans at an end, if from some point on
\* every delivery of a cached record succeeds, processing_thread keeps
\* calling send_cached_scans and the cache becomes empty, and stays so.
C16_BacklogDrains ==
    <>[][~FlushTurnFails]_vars
        => ([]<>(pc = "flush" \/ (pc = "get" /\ iter.flushed))
            /\ <>[](cache = {}))

\* A backlog of two records was delivered and removed in one flush.
C16_Witness ==
    /\ FlushEnded
    /\ Len(iter.log) = 2
    /\ \A i \in LogIndices : Delivered(iter.log[i].response)
    /\ cache = {}

\* C17: processing_thread alone takes from scan_queue, one token at the
\* head at a time; whatever processing_thread is doing, also inside a
\* delivery, a cache write, a flush or the console's result sleep, main can
\* read the character that is ready, and the token a terminator completes
\* is appended to scan_queue.
C17_InputNeverWaits ==
    /\ []((main = "loop" /\ stdin # <<>>) => ENABLED ReadChar)
    /\ [][ (/\ stdin # <<>>
            /\ stdin' = Tail(stdin)
            /\ Head(stdin).ch = NL
            /\ current_input # <<>>)
           => scan_queue' = Append(scan_queue, Trimmed(current_input)) ]_vars
    /\ [][ Len(scan_queue') < Len(scan_queue)
           => /\ pc = "get"
              /\ pc' \in {"post", "sleep"}
              /\ barcode' = Head(scan_queue)
              /\ scan_queue' = Tail(scan_queue) ]_vars

\* A token was framed and queued during the console variant's result sleep,
\* and is waiting there.
C17_Witness ==
    /\ pc = "showing"
    /\ done_line.valid
    /\ done_line.busy
    /\ done_line.toks # <<>>
    /\ scan_queue = done_line.toks
    /\ barcode # NoBarcode

\* A turn of the for loop of send_cached_scans: it adds an entry to the log.
FlushTurn == pc = "flush" /\ Len(iter'.log) = Len(iter.log) + 1

\* The file and the response of the turn just made.
TurnFile == iter'.log[Len(iter'.log)].file
TurnResponse == iter'.log[Len(iter'.log)].response

\* C18 as stated: once a delivery attempt for a scan, fresh or cached, has
\* ended in an application failure, that scan is never sent again; so no
\* cache file is sent after a refusal of it.
C18_NeverSentAgain == retried.resent = {}

\* C18 amended: a fresh scan that ends in an application failure leaves no
\* record behind, and only tokens from scan_queue and records in the cache
\* are ever sent, so it is not sent again.  A cached record answered with
\* a status other than 200 stays in the cache, every flush takes all the
\* records of the cache, and a record answered with 200 is gone.
C18_OnlyFreshNotRetried ==
    /\ [][ (pc = "handle" /\ pc' # "handle" /\ ApplicationFailure(response))
           => cache' = cache ]_vars
    /\ [][ FlushTurn => TurnFile \in Files(cache) ]_vars
    /\ [][ (FlushTurn /\ TurnResponse.kind = "http"
              /\ TurnResponse.status # 200)
           => \E rec \in cache' : rec.file = TurnFile /\ rec \in cache ]_vars
    /\ [][ (FlushTurn /\ TurnResponse.kind = "http"
              /\ TurnResponse.status = 200)
           => TurnFile \notin Files(cache') ]_vars
    /\ [][ (pc = "top" /\ pc' = "flush") => pending' = Files(cache) ]_vars
    /\ [](FlushEnded => { iter.log[i].file : i \in LogIndices }
                           = iter.snapshot)

\* A cached record was turned down by the server, was sent again by a later
\* flush, and is still in the cache.
C18_Witness ==
    /\ FlushEnded
    /\ \E i \in LogIndices :
         /\ iter.log[i].file \in retried.resent
         /\ ApplicationFailure(iter.log[i].response)
         /\ iter.log[i].file \in Files(cache)

\* C19 as stated: for a fresh scan whose HTTP exchange completed, the cues
\* signalled are the success cue alone when the result is a success and
\* the error cue alone when it is a failure; a 200 whose success flag is
\* absent or false gets the error cue and no success cue.
C19_CueMatchesResult ==
    (Handled /\ response.kind = "http")
        => iter.cues = IF iter.result.type = "success"
                       THEN <<"success">> ELSE <<"error">>

\* C20 as stated: a cache_scan that returns true adds exactly one record to
\* the cache and leaves the others as they were (no two stores share a file
\* name), and a re-delivery answered with success removes the record it
\* sent and no other.
C20_StoreAddsOneRecord ==
    /\ [][ (pc = "handle" /\ pc' # "handle" /\ iter'.cached)
           => /\ Cardinality(cache') = Cardinality(cache) + 1
              /\ cache \subseteq cache' ]_vars
    /\ [][ (FlushTurn /\ Delivered(TurnResponse))
           => /\ Cardinality(cache') = Cardinality(cache) - 1
              /\ cache' = { rec \in cache : rec.file # TurnFile } ]_vars

C22_EmptyFlushNoOp ==
    [][ (ListCache /\ Files(cache) = {})
          => /\ pc' = "get"
             /\ pending' = {}
             /\ iter'.posts = iter.posts /\ iter'.sent = iter.sent
             /\ iter'.log = iter.log /\ iter'.log = <<>>
             /\ iter'.cache_calls = iter.cache_calls
             /\ UNCHANGED <<cache, scan_queue, display_queue>>
             /\ UNCHANGED <<wall, retried, response, barcode, console>> ]_vars

\* An empty flush has returned while a token waits in scan_queue.
C22_Witness ==
    /\ pc = "get"
    /\ iter.flushed
    /\ iter.snapshot = {}
    /\ iter.log = <<>>
    /\ cache = {}
    /\ scan_queue # <<>>

\* C23 as stated: once display_thread has rendered something, between its
\* iterations is_showing_clock is true exactly when the framebuffer holds
\* the clock face and false exactly when it holds a result screen.
C23_FlagMatchesSurface ==
    (variant = "display" /\ screen.image # "blank")
        => /\ is_showing_clock <=> screen = ClockScreen
           /\ ~is_showing_clock <=> screen.image = "success"

\* What a display request says about the scan it answers.
IdOf(e) == IF e.type = "success" THEN e.name ELSE e.message

IsAnswer(e) == e.type \in {"success", "error"}

NonEmpty(tok) == tok # <<>>

\* The scans under way, oldest first: those whose display request waits in
\* display_queue, the one process_barcode works on, and the non-empty
\* tokens in scan_queue.
Pipeline ==
    LET answers == SelectSeq(display_queue, IsAnswer)
        tokens == SelectSeq(scan_queue, NonEmpty)
    IN [i \in 1..Len(answers) |-> IdOf(answers[i])]
       \o (IF pc \in {"post", "handle"} THEN <<Spell(barcode)>> ELSE <<>>)
       \o [i \in 1..Len(tokens) |-> Spell(tokens[i])]

\* The place in the pipeline of the scan process_barcode works on.
InHand == Len(SelectSeq(display_queue, IsAnswer)) + 1

\* C24: in the display variant process_barcode, on whatever path it ends,
\* puts exactly one display request at the tail of display_queue, and
\* nothing else puts one; and the scans under way keep their order from
\* the input loop to display_thread: the pipeline grows only at its tail,
\* by a token the input loop emits, and shrinks only at its head, by the
\* request display_thread takes, and in between a scan changes only from
\* token to request, in its place.
C24_OneEventInOrder ==
    [][ /\ (pc = "handle" /\ pc' # "handle")
            => /\ Len(display_queue') = Len(display_queue) + 1
               /\ SubSeq(display_queue', 1, Len(display_queue))
                     = display_queue
               /\ IsAnswer(display_queue'[Len(display_queue')])
        /\ (display_queue' # display_queue)
            => \/ pc = "handle" /\ pc' # "handle"
               \/ /\ display_queue # <<>>
                  /\ display_queue' = Tail(display_queue)
        /\ \/ Pipeline' = Pipeline
           \/ /\ Len(scan_queue') = Len(scan_queue) + 1
              /\ Pipeline' = Append(Pipeline, Pipeline'[Len(Pipeline')])
           \/ /\ display_queue # <<>> /\ display_queue' = Tail(display_queue)
              /\ Pipeline # <<>> /\ Pipeline' = Tail(Pipeline)
           \/ /\ pc = "handle" /\ pc' # "handle"
              /\ response \notin Echoes(barcode)
              /\ Len(Pipeline') = Len(Pipeline)
              /\ \A i \in 1..Len(Pipeline) \ {InHand} :
                    Pipeline'[i] = Pipeline[i] ]_vars

\* The requests of two scans wait in display_queue in the order of their
\* tokens, a refused one before an accepted one, and process_barcode has
\* just put the second.
C24_Witness ==
    /\ Len(display_queue) = 2
    /\ display_queue[1].type = "error" /\ IdOf(display_queue[1]) = "a"
    /\ display_queue[2].type = "success" /\ IdOf(display_queue[2]) = "b"
    /\ pc = "sleep"
    /\ iter.result = display_queue[2]

\* The body of display_thread's loop, run now, would call update_screen:
\* for a success or an error request, or for a clock face that is due.
Draws ==
    IF display_queue # <<>>
    THEN Head(display_queue).type \in {"success", "error"}
    ELSE /\ is_showing_clock \/ display_left < 0
         /\ clock_age >= CLOCK_UPDATE_INTERVAL

\* C25 as stated: display_thread never enters update_screen once cleanup
\* has closed the framebuffer.
C25_NoWriteAfterClose ==
    [][ ((ShowRequest \/ ShowIdle \/ ShowLast) /\ Draws)
          => fb # "closed" ]_vars

====
